---- MODULE Spec2Model ----
(***************************************************************************)
(* rfasta: the sequence-cleaning pipeline (sequence_processing.rs) and the *)
(* validation / correction / deduplication helpers it calls                *)
(* (utilities.rs, configs.rs), and the reader, writer, splitter and        *)
(* argument check of io.rs.                                                *)
(*                                                                         *)
(* A string is a sequence of one-character strings, a record is the pair   *)
(* <<header, sequence>> (Rust entry[0], entry[1]) and a dataset is a       *)
(* sequence of records.  A text file is the sequence of its lines.  A      *)
(* Result is [ok |-> TRUE, val |-> v] or                                   *)
(* [ok |-> FALSE, err |-> e]; an Option is None or Some(v).  Where the     *)
(* code iterates a HashMap or HashSet, or shuffles, the operator gives the *)
(* set of every outcome.                                                   *)
(***************************************************************************)
EXTENDS Naturals, Sequences, FiniteSets

VARIABLES pc, call, processed, ran, ret, file

vars == <<pc, call, processed, ran, ret, file>>

\* Option<T>
None == [some |-> FALSE]

Some(v) == [some |-> TRUE, val |-> v]

\* Result<T, E>; Unit is ().
Ok(v) == [ok |-> TRUE, val |-> v]

Err(e) == [ok |-> FALSE, err |-> e]

Unit == <<>>

\* A value returned by a function that cannot fail.
Val(v) == [val |-> v]

\* No call has returned yet.
NoRet == [pending |-> TRUE]

(* ------------------------------ bounds -------------------------------- *)

\* Longest dataset handed to an operation.
MaxRecords == 3

\* Longest sequence handed to convert_to_valid.
MaxSeqLen == 2

\* Most lines of a file handed to the parser.
MaxLines == 4

\* Most entries handed to write_fasta.
MaxEntries == 2

\* Most records handed to split_fasta.
MaxSplitRecords == 5

\* Largest number of chunks asked of split_fasta.
MaxChunks == 5

\* The narrowest line write_fasta writes (io.rs:227-228).
MinLineLength == 5

(* ------------------------------- inputs -------------------------------- *)

\* Two headers that differ only in a comma / semicolon.
HeaderComma == <<"a", ",">>

HeaderSemi == <<"a", ";">>

\* The records datasets are built from: a valid one, one the default table
\* corrects ("B" -> "N"), one with two invalid characters of which the table
\* corrects only one, and one that is valid only with the gap allowed.
RecordPool ==
    { <<HeaderComma, <<"N">>>>, <<HeaderComma, <<"B">>>>,
      <<HeaderSemi, <<"B", "J">>>>, <<HeaderSemi, <<"N", "-">>>> }

PoolSequences == { r[2] : r \in RecordPool }

DatasetInputs == UNION { [1..n -> RecordPool] : n \in 0..MaxRecords }

\* Characters of the sequences handed to the per-sequence functions: a
\* standard residue, keys of the default tables with a residue target ("B",
\* "X") and with an empty target ("*", and "-" / " " which only one of the
\* two tables holds), and one character of no table and no alphabet.
SeqChars == { "N", "B", "X", "*", "-", " ", "J" }

SeqInputs == UNION { [1..n -> SeqChars] : n \in 0..MaxSeqLen }

\* The dataset [("h1", "MKBX")] and the sequence "MKV-".
DatasetMKBX == << << <<"h", "1">>, <<"M", "K", "B", "X">> >> >>

SeqMKVGap == <<"M", "K", "V", "-">>

(* ------------------------------ configs.rs ----------------------------- *)

\* Mutant of STANDARD_CONVERSION: the target of "B" is the key "X".
STANDARD_CONVERSION_Overlapping ==
    { <<"B", <<"X">>>>, <<"U", <<"C">>>>, <<"X", <<"G">>>>,
      <<"Z", <<"Q">>>>, <<"*", <<>>>>, <<"-", <<>>>> }

STANDARD_CONVERSION ==
    { <<"B", <<"N">>>>, <<"U", <<"C">>>>, <<"X", <<"G">>>>,
      <<"Z", <<"Q">>>>, <<"*", <<>>>>, <<"-", <<>>>> }

STANDARD_CONVERSION_WITH_GAP ==
    { <<"B", <<"N">>>>, <<"U", <<"C">>>>, <<"X", <<"G">>>>,
      <<"Z", <<"Q">>>>, <<" ", <<>>>>, <<"*", <<>>>> }

STANDARD_AAS ==
    { "A", "C", "D", "E", "F", "G", "H", "I", "K", "L",
      "M", "N", "P", "Q", "R", "S", "T", "V", "W", "Y" }

STANDARD_AAS_WITH_GAP == STANDARD_AAS \cup {"-"}

(* ----------------------------- utilities.rs ---------------------------- *)

\* str::replace for a one-character pattern: every occurrence of key in s
\* is replaced by the string value, left to right.
RECURSIVE Replace(_, _, _)
Replace(s, key, value) ==
    IF s = <<>> THEN <<>>
    ELSE (IF Head(s) = key THEN value ELSE <<Head(s)>>)
         \o Replace(Tail(s), key, value)

\* The loop `for (key, value) in converter.iter()` run in the iteration
\* order `order`, a sequence of the table's entries.
RECURSIVE ApplyInOrder(_, _)
ApplyInOrder(s, order) ==
    IF order = <<>> THEN s
    ELSE ApplyInOrder(Replace(s, Head(order)[1], Head(order)[2]), Tail(order))

\* The orders in which a HashMap holding `table` may be iterated: all of them.
RECURSIVE IterationOrders(_)
IterationOrders(table) ==
    IF table = {} THEN { <<>> }
    ELSE UNION { { <<e>> \o o : o \in IterationOrders(table \ {e}) } : e \in table }

StandardOrders == IterationOrders(STANDARD_CONVERSION)

StandardOrdersWithGap == IterationOrders(STANDARD_CONVERSION_WITH_GAP)

\* Mutant of ConverterOrders: the alignment flag is not consulted and the
\* table without the gap is always the default.
ConverterOrders_NoGapTable(alignment, correction_dictionary) ==
    IF correction_dictionary.some THEN IterationOrders(correction_dictionary.val)
    ELSE StandardOrders

\* The converter chosen at utilities.rs:39-48, as its iteration orders.
ConverterOrders(alignment, correction_dictionary) ==
    IF correction_dictionary.some THEN IterationOrders(correction_dictionary.val)
    ELSE IF alignment THEN StandardOrdersWithGap
    ELSE StandardOrders

\* convert_to_valid: the strings it can return, one per iteration order.
convert_to_valid(seq, alignment, correction_dictionary) ==
    { ApplyInOrder(seq, o) : o \in ConverterOrders(alignment, correction_dictionary) }

\* Mutant of valid_aa_list: the list with the gap is always chosen.
valid_aa_list_AlwaysGap(alignment) == STANDARD_AAS_WITH_GAP

valid_aa_list(alignment) ==
    IF alignment THEN STANDARD_AAS_WITH_GAP ELSE STANDARD_AAS

\* The characters of seq the loop at utilities.rs:78-83 can return with.
InvalidChars(seq, alignment) ==
    { seq[i] : i \in 1..Len(seq) } \ valid_aa_list(alignment)

\* Mutant of check_sequence_is_valid: an invalid sequence is reported with
\* its first character instead of the character that failed the test.
check_sequence_is_valid_FirstChar(seq, alignment) ==
    IF InvalidChars(seq, alignment) = {} THEN { <<TRUE, "0">> }
    ELSE { <<FALSE, seq[1]>> }

\* check_sequence_is_valid: the pairs it can return (seq_chars is a HashSet,
\* so any invalid character of seq may be the one met first).
check_sequence_is_valid(seq, alignment) ==
    IF InvalidChars(seq, alignment) = {} THEN { <<TRUE, "0">> }
    ELSE { <<FALSE, c>> : c \in InvalidChars(seq, alignment) }

\* The first component of check_sequence_is_valid, which is the same for
\* every iteration order.
is_valid(seq, alignment) ==
    \A r \in check_sequence_is_valid(seq, alignment) : r[1]

\* convert_to_valid(s, alignment, None) for the sequences of RecordPool,
\* evaluated once.
ConvertedPool ==
    { <<s, a, convert_to_valid(s, a, None)>> : s \in PoolSequences, a \in BOOLEAN }

\* The call convert_to_valid(&s, alignment, correction_dictionary.clone()) at
\* utilities.rs:99: the strings it can return.
Corrected(s, alignment, correction_dictionary) ==
    IF ~correction_dictionary.some /\ s \in PoolSequences
    THEN (CHOOSE t \in ConvertedPool : t[1] = s /\ t[2] = alignment)[3]
    ELSE convert_to_valid(s, alignment, correction_dictionary)

\* Mutant of ConvertRows: every row is counted, changed or not.
RECURSIVE ConvertRows_CountAll(_, _, _, _)
ConvertRows_CountAll(dataset, i, correction_dictionary, alignment) ==
    IF i > Len(dataset) THEN { <<dataset, 0>> }
    ELSE UNION {
           { << [r[1] EXCEPT ![i] = <<dataset[i][1], corrected>>], r[2] + 1 >>
               : r \in ConvertRows_CountAll(dataset, i + 1, correction_dictionary, alignment) }
           : corrected \in Corrected(dataset[i][2], alignment, correction_dictionary) }

\* The loop of convert_invalid_sequences from row i on: the pairs
\* (dataset, count) it can end with (each row has its own converter, so
\* its own iteration order).
RECURSIVE ConvertRows(_, _, _, _)
ConvertRows(dataset, i, correction_dictionary, alignment) ==
    IF i > Len(dataset) THEN { <<dataset, 0>> }
    ELSE UNION {
           { << [r[1] EXCEPT ![i] = <<dataset[i][1], corrected>>],
                r[2] + (IF dataset[i][2] # corrected THEN 1 ELSE 0) >>
               : r \in ConvertRows(dataset, i + 1, correction_dictionary, alignment) }
           : corrected \in Corrected(dataset[i][2], alignment, correction_dictionary) }

convert_invalid_sequences(dataset, correction_dictionary, alignment) ==
    ConvertRows(dataset, 1, correction_dictionary, alignment)

\* Mutant of remove_invalid_sequences: the gap is always accepted.
remove_invalid_sequences_GapAllowed(dataset, alignment) ==
    LET keep(element) == is_valid(element[2], TRUE)
    IN  SelectSeq(dataset, keep)

remove_invalid_sequences(dataset, alignment) ==
    LET keep(element) == is_valid(element[2], alignment)
    IN  SelectSeq(dataset, keep)

\* The error built at utilities.rs:133-136.
InvalidCharacterError(invalid_char, header) ==
    [kind |-> "invalid_character", char |-> invalid_char, header |-> header]

\* fail_on_invalid_sequences from record i on: the Results it can return.
RECURSIVE FailOnInvalidFrom(_, _, _)
FailOnInvalidFrom(sequences, i, alignment) ==
    IF i > Len(sequences) THEN { Ok(Unit) }
    ELSE IF is_valid(sequences[i][2], alignment)
         THEN FailOnInvalidFrom(sequences, i + 1, alignment)
         ELSE { Err(InvalidCharacterError(r[2], sequences[i][1]))
                  : r \in check_sequence_is_valid(sequences[i][2], alignment) }

\* Mutant of fail_on_invalid_sequences: the loop returns after its first
\* record.
fail_on_invalid_sequences_FirstOnly(sequences, alignment) ==
    IF sequences = <<>> THEN { Ok(Unit) }
    ELSE FailOnInvalidFrom(<<sequences[1]>>, 1, alignment)

fail_on_invalid_sequences(sequences, alignment) ==
    FailOnInvalidFrom(sequences, 1, alignment)

\* HashMap::insert(key, value) on a map held as a function.
MapInsert(map, key, value) ==
    [k \in DOMAIN map \cup {key} |-> IF k = key THEN value ELSE map[k]]

EmptyMap == [k \in {} |-> <<>>]

\* The error built at utilities.rs:173-176.
DuplicateEntryError(entry) ==
    [kind |-> "duplicate_entry", header |-> entry[1], sequence |-> entry[2]]

\* The loop of fail_on_duplicates from entry i on, with the lookup built so
\* far (header -> the sequence inserted for it).
RECURSIVE FailOnDuplicatesFrom(_, _, _)
FailOnDuplicatesFrom(dataset, i, lookup) ==
    IF i > Len(dataset) THEN Ok(Unit)
    ELSE IF dataset[i][1] \in DOMAIN lookup
         THEN IF lookup[dataset[i][1]] = dataset[i][2]
              THEN Err(DuplicateEntryError(dataset[i]))
              ELSE FailOnDuplicatesFrom(dataset, i + 1, lookup)
         ELSE FailOnDuplicatesFrom(dataset, i + 1,
                  MapInsert(lookup, dataset[i][1], dataset[i][2]))

fail_on_duplicates(dataset) == FailOnDuplicatesFrom(dataset, 1, EmptyMap)

\* Mutant of FoundDupe: only the first sequence kept for the header is
\* compared (as fail_on_duplicates does).
FoundDupe_FirstOnly(seen, sequence) == seen[1] = sequence

\* The inner loop at utilities.rs:196-202.
FoundDupe(seen, sequence) == \E j \in 1..Len(seen) : seen[j] = sequence

\* The loop of remove_duplicates from entry i on, with lookup (header -> the
\* sequences kept for it) and the entries pushed to `updated` so far.
RECURSIVE RemoveDuplicatesFrom(_, _, _, _)
RemoveDuplicatesFrom(dataset, i, lookup, updated) ==
    IF i > Len(dataset) THEN updated
    ELSE IF dataset[i][1] \notin DOMAIN lookup
         THEN RemoveDuplicatesFrom(dataset, i + 1,
                  MapInsert(lookup, dataset[i][1], <<dataset[i][2]>>),
                  Append(updated, dataset[i]))
         ELSE IF ~FoundDupe(lookup[dataset[i][1]], dataset[i][2])
              THEN RemoveDuplicatesFrom(dataset, i + 1,
                       MapInsert(lookup, dataset[i][1],
                                 Append(lookup[dataset[i][1]], dataset[i][2])),
                       Append(updated, dataset[i]))
              ELSE RemoveDuplicatesFrom(dataset, i + 1, lookup, updated)

remove_duplicates(dataset) == RemoveDuplicatesFrom(dataset, 1, EmptyMap, <<>>)

(* ------------- deduplication by header / by sequence (spec 4.4) -------- *)
(* sequence_processing.rs calls utilities::fail_on_duplicate_records,      *)
(* remove_duplicate_records, fail_on_duplicate_sequences and               *)
(* remove_duplicate_sequences; their bodies are described in section 4.4   *)
(* of the specification.  `field` is 1 for the header, 2 for the sequence. *)

\* dataset[i] repeats the key of an earlier record.
SeenBefore(dataset, i, field) ==
    \E j \in 1..(i - 1) : dataset[j][field] = dataset[i][field]

\* The first record, in input order, whose key was seen before; 0 if none.
FirstRepeat(dataset, field) ==
    IF \E i \in 1..Len(dataset) : SeenBefore(dataset, i, field)
    THEN CHOOSE i \in 1..Len(dataset) :
             /\ SeenBefore(dataset, i, field)
             /\ \A j \in 1..(i - 1) : ~SeenBefore(dataset, j, field)
    ELSE 0

\* Keeps the first occurrence of each key, in original order.
RECURSIVE KeepFirstFrom(_, _, _)
KeepFirstFrom(dataset, i, field) ==
    IF i > Len(dataset) THEN <<>>
    ELSE (IF SeenBefore(dataset, i, field) THEN <<>> ELSE <<dataset[i]>>)
         \o KeepFirstFrom(dataset, i + 1, field)

fail_on_duplicate_records(dataset) ==
    IF FirstRepeat(dataset, 1) = 0 THEN Ok(Unit)
    ELSE Err([kind |-> "duplicate_record",
              header |-> dataset[FirstRepeat(dataset, 1)][1]])

remove_duplicate_records(dataset) == KeepFirstFrom(dataset, 1, 1)

fail_on_duplicate_sequences(dataset) ==
    IF FirstRepeat(dataset, 2) = 0 THEN Ok(Unit)
    ELSE Err([kind |-> "duplicate_sequence",
              sequence |-> dataset[FirstRepeat(dataset, 2)][2]])

remove_duplicate_sequences(dataset) == KeepFirstFrom(dataset, 1, 2)

(* ------------------------- sequence_processing.rs ---------------------- *)

\* The error built by the `_` arm of a deal_with_* match.
InvalidOptionError(keyword, value) ==
    [kind |-> "invalid_option", keyword |-> keyword, value |-> value]

\* `f(data.clone())?; Ok(data)`: r is what f returned.
Propagate(r, data) == IF r.ok THEN Ok(data) ELSE r

\* deal_with_invalid_sequences: the Results it can return (verbose only
\* prints).
deal_with_invalid_sequences(data, invalid_sequence_action, alignment, correction_dictionary) ==
    IF invalid_sequence_action = "fail"
    THEN { Propagate(r, data) : r \in fail_on_invalid_sequences(data, alignment) }
    ELSE IF invalid_sequence_action = "remove"
    THEN { Ok(remove_invalid_sequences(data, alignment)) }
    ELSE IF invalid_sequence_action \in {"convert", "convert-ignore"}
    THEN UNION {
           IF invalid_sequence_action = "convert"
           THEN { Propagate(r, u[1])
                    : r \in fail_on_invalid_sequences(u[1], alignment) }
           ELSE { Ok(u[1]) }
           : u \in convert_invalid_sequences(data, correction_dictionary, alignment) }
    ELSE IF invalid_sequence_action = "ignore"
    THEN { Ok(data) }
    ELSE { Err(InvalidOptionError("invalid_sequence_action", invalid_sequence_action)) }

\* Mutant of deal_with_duplicate_records: 'remove' calls the combined-key
\* remove_duplicates instead of remove_duplicate_records.
deal_with_duplicate_records_ByPair(data, duplicate_record_action) ==
    IF duplicate_record_action = "ignore" THEN Ok(data)
    ELSE IF duplicate_record_action = "fail"
    THEN Propagate(fail_on_duplicate_records(data), data)
    ELSE IF duplicate_record_action = "remove"
    THEN Ok(remove_duplicates(data))
    ELSE Err(InvalidOptionError("duplicate_record_action", duplicate_record_action))

deal_with_duplicate_records(data, duplicate_record_action) ==
    IF duplicate_record_action = "ignore" THEN Ok(data)
    ELSE IF duplicate_record_action = "fail"
    THEN Propagate(fail_on_duplicate_records(data), data)
    ELSE IF duplicate_record_action = "remove"
    THEN Ok(remove_duplicate_records(data))
    ELSE Err(InvalidOptionError("duplicate_record_action", duplicate_record_action))

deal_with_duplicate_sequences(data, duplicate_sequence_action) ==
    IF duplicate_sequence_action = "ignore" THEN Ok(data)
    ELSE IF duplicate_sequence_action = "fail"
    THEN Propagate(fail_on_duplicate_sequences(data), data)
    ELSE IF duplicate_sequence_action = "remove"
    THEN Ok(remove_duplicate_sequences(data))
    ELSE Err(InvalidOptionError("duplicate_sequence_action", duplicate_sequence_action))

\* Mutant of RetainAtLeast: the bound is exclusive.
RetainAtLeast_Exclusive(data, min_len) ==
    LET keep(seq) == Len(seq[2]) > min_len IN SelectSeq(data, keep)

\* processed.retain(|seq| seq[1].len() >= *min_len)
RetainAtLeast(data, min_len) ==
    LET keep(seq) == Len(seq[2]) >= min_len IN SelectSeq(data, keep)

\* processed.retain(|seq| seq[1].len() <= *max_len)
RetainAtMost(data, max_len) ==
    LET keep(seq) == Len(seq[2]) <= max_len IN SelectSeq(data, keep)

\* The length filter, sequence_processing.rs:173-179.
length_filter(data, shortest_seq, longest_seq) ==
    LET after_min == IF shortest_seq.some
                     THEN RetainAtLeast(data, shortest_seq.val) ELSE data
    IN  IF longest_seq.some THEN RetainAtMost(after_min, longest_seq.val)
        ELSE after_min

\* processed.shuffle(&mut rng): every arrangement of data.
Shuffles(data) ==
    { [i \in 1..Len(data) |-> data[p[i]]] : p \in IterationOrders(1..Len(data)) }

\* Mutant of Truncate: one record too many is kept.
Truncate_OneMore(data, len) ==
    IF len + 1 < Len(data) THEN SubSeq(data, 1, len + 1) ELSE data

\* processed.truncate(len)
Truncate(data, len) ==
    IF len < Len(data) THEN SubSeq(data, 1, len) ELSE data

\* The subsample, sequence_processing.rs:181-186: the datasets it can leave.
random_subsample_outcomes(data, random_subsample) ==
    IF random_subsample.some
    THEN { Truncate(s, random_subsample.val) : s \in Shuffles(data) }
    ELSE { data }

\* Mutant of sanitize_headers: the flag is not tested.
sanitize_headers_Always(data, remove_comma_from_header) ==
    [i \in 1..Len(data) |-> <<Replace(data[i][1], ",", <<";">>), data[i][2]>>]

\* The header loop, sequence_processing.rs:188-193.
sanitize_headers(data, remove_comma_from_header) ==
    IF remove_comma_from_header
    THEN [i \in 1..Len(data) |-> <<Replace(data[i][1], ",", <<";">>), data[i][2]>>]
    ELSE data

(* --------------------------------- io.rs ------------------------------- *)

\* The lines files are made of: two header lines, a sequence line, a
\* lower-case sequence line padded with blanks, and a blank line.
LinePool ==
    { <<">", "a">>, <<">", "b">>, <<"N">>, <<" ", "k", " ">>, <<" ">> }

FileInputs == UNION { [1..n -> LinePool] : n \in 0..MaxLines }

\* str::trim, for the blank as the only whitespace.
RECURSIVE TrimStart(_)
TrimStart(line) ==
    IF line # <<>> /\ Head(line) = " " THEN TrimStart(Tail(line)) ELSE line

RECURSIVE TrimEnd(_)
TrimEnd(line) ==
    IF line # <<>> /\ line[Len(line)] = " "
    THEN TrimEnd(SubSeq(line, 1, Len(line) - 1)) ELSE line

Trim(line) == TrimEnd(TrimStart(line))

\* str::to_uppercase, for the letters of LinePool.
ToUpperChar(c) == IF c = "k" THEN "K" ELSE IF c = "n" THEN "N" ELSE c

to_uppercase(s) == [i \in 1..Len(s) |-> ToUpperChar(s[i])]

\* panic!(..): the thread unwinds and the function does not return.
Panic(message) == [panic |-> message]

\* The locals of _parse_fasta_all that `update` writes.
ParseState(return_data, all_headers) ==
    [return_data |-> return_data, all_headers |-> all_headers]

\* update (io.rs:157-166): the locals after it, or its panic.
update(header, seq, all_headers, expect_unique_header, return_data) ==
    IF header \in all_headers /\ expect_unique_header
    THEN Panic([kind |-> "duplicate_header", header |-> header])
    ELSE ParseState(Append(return_data, <<header, to_uppercase(seq)>>),
                    all_headers \cup {header})

\* An `update` that did not return normally.
Stopped(u) == "return_data" \notin DOMAIN u

\* The loop of _parse_fasta_all from line i on and what follows it
\* (header_parser is None at every call in the repository).
RECURSIVE ParseFrom(_, _, _, _, _, _)
ParseFrom(content, i, expect_unique_header, st, seq, header) ==
    IF i > Len(content)
    THEN IF seq # <<>>
         THEN LET u == update(header, seq, st.all_headers, expect_unique_header, st.return_data)
              IN  IF Stopped(u) THEN u ELSE Val(u.return_data)
         ELSE Val(st.return_data)
    ELSE LET sline == Trim(content[i]) IN
         IF sline = <<>>
         THEN ParseFrom(content, i + 1, expect_unique_header, st, seq, header)
         ELSE IF Head(sline) = ">"
         THEN IF seq # <<>>
              THEN LET u == update(header, seq, st.all_headers, expect_unique_header, st.return_data)
                   IN  IF Stopped(u) THEN u
                       ELSE ParseFrom(content, i + 1, expect_unique_header, u, <<>>, Tail(sline))
              ELSE ParseFrom(content, i + 1, expect_unique_header, st, <<>>, Tail(sline))
         ELSE ParseFrom(content, i + 1, expect_unique_header, st, seq \o sline, header)

\* _parse_fasta_all: Val(return_data), or what stopped an update.
parse_fasta_all(content, expect_unique_header) ==
    ParseFrom(content, 1, expect_unique_header, ParseState(<<>>, {}), <<>>, <<>>)

\* internal_parse_fasta_file on a file that is unreadable (content = None)
\* or holds the lines content.val: the Result it returns, or the panic it
\* lets through.
internal_parse_fasta_file(content, expect_unique_header) ==
    IF ~content.some THEN Err([kind |-> "unreadable_file"])
    ELSE LET r == parse_fasta_all(content.val, expect_unique_header)
         IN  IF "val" \in DOMAIN r THEN Ok(r.val) ELSE r

\* The entries write_fasta is given: sequences of 5 and 7 residues, an empty
\* sequence, and an entry of one element.
SeqMKVLA == <<"M", "K", "V", "L", "A">>

EntryPool ==
    { <<<<"h">>, SeqMKVLA>>,
      <<<<"g">>, SeqMKVLA \o <<"M", "K">> >>,
      <<<<"e">>, <<>> >>,
      << <<"h">> >> }

EntryInputs == UNION { [1..n -> EntryPool] : n \in 0..MaxEntries }

LineLengthInputs == { None, Some(1), Some(3), Some(5), Some(6) }

\* What the file may hold before write_fasta opens it.
ExistingInputs == { <<>>, << <<">", "o">>, <<"N">>, <<>> >> }

\* Mutant of ClampLineLength: the requested width is used as it is.
ClampLineLength_AsRequested(line_length) == line_length

\* write_fasta's rebinding of line_length (io.rs:226-230).
ClampLineLength(line_length) ==
    IF line_length.some /\ line_length.val >= MinLineLength THEN line_length
    ELSE IF line_length.some THEN Some(MinLineLength)
    ELSE None

\* slice::chunks(len): consecutive pieces of len elements, the last shorter.
RECURSIVE Chunks(_, _)
Chunks(seq, len) ==
    IF seq = <<>> THEN <<>>
    ELSE IF Len(seq) <= len THEN <<seq>>
    ELSE <<SubSeq(seq, 1, len)>> \o Chunks(SubSeq(seq, len + 1, Len(seq)), len)

\* The lines write_fasta writes for one entry: header, sequence, blank.
EntryLines(header, seq, line_length) ==
    << <<">">> \o header >>
        \o (IF line_length.some THEN Chunks(seq, line_length.val) ELSE <<seq>>)
        \o << <<>> >>

MalformedEntryError == [kind |-> "entry_not_a_pair"]

EmptySequenceError(header) == [kind |-> "empty_sequence", header |-> header]

\* The loop of write_fasta from entry i on: its result and the lines that
\* reached the file.
RECURSIVE WriteFrom(_, _, _, _)
WriteFrom(fasta_data, i, line_length, written) ==
    IF i > Len(fasta_data) THEN [result |-> Ok(Unit), written |-> written]
    ELSE IF Len(fasta_data[i]) # 2
    THEN [result |-> Err(MalformedEntryError), written |-> written]
    ELSE IF fasta_data[i][2] = <<>>
    THEN [result |-> Err(EmptySequenceError(fasta_data[i][1])), written |-> written]
    ELSE WriteFrom(fasta_data, i + 1, line_length,
                   written \o EntryLines(fasta_data[i][1], fasta_data[i][2], line_length))

\* write_fasta on a file that holds `existing` and can be opened or not:
\* its result and the file's lines afterwards.
write_fasta(fasta_data, existing, can_open, line_length, append_to_fasta) ==
    IF ~can_open
    THEN [result |-> Err([kind |-> "io"]), written |-> existing]
    ELSE WriteFrom(fasta_data, 1, ClampLineLength(line_length),
                   IF append_to_fasta THEN existing ELSE <<>>)

\* The datasets split_fasta is given.
SplitPool == { <<<<"a">>, <<"N">>>>, <<<<"b">>, <<"K">>>> }

SplitInputs == UNION { [1..n -> SplitPool] : n \in 0..MaxSplitRecords }

\* Mutant of FinishSplit: the chunk being filled is not pushed.
FinishSplit_DropsLast(chunks, current_chunk) == chunks

\* The end of split_fasta (io.rs:300-304).
FinishSplit(chunks, current_chunk) ==
    IF current_chunk # <<>> THEN Append(chunks, current_chunk) ELSE chunks

\* The loop of split_fasta from entry i on, and its end.
RECURSIVE SplitFrom(_, _, _, _, _, _, _)
SplitFrom(fasta_data, i, n, chunk_size, chunks, current_chunk, current_size) ==
    IF i > Len(fasta_data) THEN FinishSplit(chunks, current_chunk)
    ELSE IF current_size >= chunk_size /\ Len(chunks) < n - 1
    THEN SplitFrom(fasta_data, i + 1, n, chunk_size,
                   Append(chunks, current_chunk), <<fasta_data[i]>>, 1)
    ELSE SplitFrom(fasta_data, i + 1, n, chunk_size,
                   chunks, Append(current_chunk, fasta_data[i]), current_size + 1)

\* split_fasta: the chunks, or the panic of the division by n = 0
\* (preceded, for an empty dataset, by the underflow of 0 + 0 - 1).
split_fasta(fasta_data, n) ==
    IF n = 0 THEN Panic([kind |-> "divide_by_zero"])
    ELSE LET total_sequences == Len(fasta_data)
             chunk_size == (total_sequences + n - 1) \div n
         IN  Val(SplitFrom(fasta_data, 1, n, chunk_size, <<>>, <<>>, 0))

\* What a header_parser returns on check_inputs' test string: an empty
\* string, another string, or an error.
ParserResults == { Ok(<<>>), Ok(<<"t">>), Err([kind |-> "parser"]) }

HeaderParserInputs == { None } \cup { Some(r) : r \in ParserResults }

DuplicateActionInputs == { "ignore", "fail", "remove", "skip" }

InvalidActionInputs == { "ignore", "convert-remove", "skip" }

OutputFilenameInputs == { None, Some(<<>>), Some(<<"o">>) }

CorrectionDictionaryInputs == { None, Some({}), Some({ <<"B", <<"N">>>> }) }

CheckInputsArgs ==
    [ expect_unique_header : BOOLEAN,
      header_parser : HeaderParserInputs,
      check_header_parser : BOOLEAN,
      duplicate_record_action : DuplicateActionInputs,
      duplicate_sequence_action : { "ignore", "remove", "skip" },
      invalid_sequence_action : InvalidActionInputs,
      alignment : BOOLEAN,
      return_list : BOOLEAN,
      output_filename : OutputFilenameInputs,
      verbose : BOOLEAN,
      correction_dictionary : CorrectionDictionaryInputs ]

InputError(keyword) == Err([kind |-> "invalid_input", keyword |-> keyword])

\* check_inputs, io.rs:26-110, on the record a of its arguments.
check_inputs(a) ==
    IF ~a.expect_unique_header THEN InputError("expect_unique_header")
    ELSE IF a.check_header_parser /\ a.header_parser.some
    THEN LET tested == a.header_parser.val IN
         IF tested.ok /\ tested.val = <<>> THEN Ok(Unit)
         ELSE IF tested.ok THEN InputError("header_parser_return_value")
         ELSE InputError("header_parser_exception")
    ELSE IF a.duplicate_record_action \notin { "ignore", "fail", "remove" }
    THEN InputError("duplicate_record_action")
    ELSE IF a.duplicate_sequence_action \notin { "ignore", "fail", "remove" }
    THEN InputError("duplicate_sequence_action")
    ELSE IF a.invalid_sequence_action \notin
              { "ignore", "fail", "remove", "convert", "convert-ignore", "convert-remove" }
    THEN InputError("invalid_sequence_action")
    ELSE IF ~a.return_list THEN InputError("return_list")
    ELSE IF a.output_filename.some /\ a.output_filename.val = <<>>
    THEN InputError("output_filename")
    ELSE IF ~a.verbose THEN InputError("verbose")
    ELSE IF ~a.alignment THEN InputError("alignment")
    ELSE IF a.duplicate_record_action = "ignore" /\ a.expect_unique_header
    THEN InputError("unique_headers_and_ignore")
    ELSE IF a.correction_dictionary.some /\ a.correction_dictionary.val = {}
    THEN InputError("correction_dictionary")
    ELSE Ok(Unit)

(* ------------------------ arguments of clean_sequences ----------------- *)

\* The action strings check_inputs accepts (io.rs:58-73).
InvalidSequenceActions ==
    { "ignore", "fail", "remove", "convert", "convert-ignore", "convert-remove" }

DuplicateActions == { "ignore", "fail", "remove" }

ActionChoices ==
    [ invalid_sequence_action : InvalidSequenceActions,
      duplicate_record_action : DuplicateActions,
      duplicate_sequence_action : DuplicateActions ]

FilterChoices ==
    [ shortest_seq : { None, Some(2) },
      longest_seq : { None, Some(1) },
      random_subsample : { None, Some(1), Some(MaxRecords) },
      remove_comma_from_header : BOOLEAN ]

NoFilters ==
    [ shortest_seq |-> None, longest_seq |-> None,
      random_subsample |-> None, remove_comma_from_header |-> FALSE ]

SomeFilters ==
    [ shortest_seq |-> Some(2), longest_seq |-> None,
      random_subsample |-> Some(1), remove_comma_from_header |-> TRUE ]

AllIgnore ==
    [ invalid_sequence_action |-> "ignore", duplicate_record_action |-> "ignore",
      duplicate_sequence_action |-> "ignore" ]

ConvertAndRemove ==
    [ invalid_sequence_action |-> "convert-ignore", duplicate_record_action |-> "remove",
      duplicate_sequence_action |-> "remove" ]

\* The (actions, filters) pairs clean_sequences is called with: every
\* combination of actions with the filters off and with them on, and every
\* combination of filters under two combinations of actions.
PolicyInputs ==
    (ActionChoices \X { NoFilters, SomeFilters })
      \cup ({ AllIgnore, ConvertAndRemove } \X FilterChoices)

StageOrder ==
    << "invalid_sequences", "duplicate_records", "duplicate_sequences",
       "length_filter", "random_subsample", "headers" >>

(* -------------------------------- actions ------------------------------ *)

Init ==
    /\ pc = "idle"
    /\ call = [op |-> "none"]
    /\ processed = <<>>
    /\ ran = <<>>
    /\ ret = NoRet
    /\ file = <<>>

\* The return of a function that runs from its call (with arguments c) to
\* its return (of r) in one step.
Returns(c, r) ==
    /\ pc' = "done"
    /\ call' = c
    /\ ret' = r
    /\ UNCHANGED <<processed, ran, file>>

ConvertToValid ==
    /\ pc = "idle"
    /\ \E seq \in SeqInputs, alignment \in BOOLEAN :
         \E r \in convert_to_valid(seq, alignment, None) :
           Returns([op |-> "convert_to_valid", seq |-> seq, alignment |-> alignment,
                    correction_dictionary |-> None], Val(r))

CheckSequenceIsValid ==
    /\ pc = "idle"
    /\ \E seq \in SeqInputs \cup { SeqMKVGap }, alignment \in BOOLEAN :
         \E r \in check_sequence_is_valid(seq, alignment) :
           Returns([op |-> "check_sequence_is_valid", seq |-> seq,
                    alignment |-> alignment], Val(r))

ConvertInvalidSequences ==
    /\ pc = "idle"
    /\ \E dataset \in DatasetInputs \cup { DatasetMKBX }, alignment \in BOOLEAN :
         \E r \in convert_invalid_sequences(dataset, None, alignment) :
           Returns([op |-> "convert_invalid_sequences", dataset |-> dataset,
                    correction_dictionary |-> None, alignment |-> alignment], Val(r))

RemoveInvalidSequences ==
    /\ pc = "idle"
    /\ \E dataset \in DatasetInputs, alignment \in BOOLEAN :
         Returns([op |-> "remove_invalid_sequences", dataset |-> dataset,
                  alignment |-> alignment],
                 Val(remove_invalid_sequences(dataset, alignment)))

FailOnInvalidSequences ==
    /\ pc = "idle"
    /\ \E sequences \in DatasetInputs, alignment \in BOOLEAN :
         \E r \in fail_on_invalid_sequences(sequences, alignment) :
           Returns([op |-> "fail_on_invalid_sequences", dataset |-> sequences,
                    alignment |-> alignment], r)

FailOnDuplicates ==
    /\ pc = "idle"
    /\ \E dataset \in DatasetInputs :
         Returns([op |-> "fail_on_duplicates", dataset |-> dataset],
                 fail_on_duplicates(dataset))

RemoveDuplicates ==
    /\ pc = "idle"
    /\ \E dataset \in DatasetInputs :
         Returns([op |-> "remove_duplicates", dataset |-> dataset],
                 Val(remove_duplicates(dataset)))

\* Mutant of CleanSequences: the headers are sanitized on entry, before
\* the first stage.
CleanSequences_HeadersFirst ==
    /\ pc = "idle"
    /\ \E data \in DatasetInputs, policy \in PolicyInputs, alignment \in BOOLEAN :
         /\ call' = [op |-> "clean_sequences", data |-> data,
                     actions |-> policy[1], filters |-> policy[2],
                     alignment |-> alignment]
         /\ processed' = sanitize_headers(data, policy[2].remove_comma_from_header)
    /\ pc' = "invalid_sequences"
    /\ UNCHANGED <<ran, ret, file>>

\* The entry of clean_sequences: `let mut processed = sequences`.
CleanSequences ==
    /\ pc = "idle"
    /\ \E data \in DatasetInputs, policy \in PolicyInputs, alignment \in BOOLEAN :
         /\ call' = [op |-> "clean_sequences", data |-> data,
                     actions |-> policy[1], filters |-> policy[2],
                     alignment |-> alignment]
         /\ processed' = data
    /\ pc' = "invalid_sequences"
    /\ UNCHANGED <<ran, ret, file>>

\* Mutant of StageReturned: the `?` is missing, so an Err is dropped and the
\* next stage runs on the dataset as it was.
StageReturned_ErrDropped(stage, r, next) ==
    /\ ran' = Append(ran, [stage |-> stage, ok |-> r.ok])
    /\ processed' = IF r.ok THEN r.val ELSE processed
    /\ pc' = next
    /\ UNCHANGED <<ret, call, file>>

\* A stage that returned r: `processed = stage(processed, ..)?`.  An Err
\* returns from clean_sequences at once; an Ok is assigned and the next
\* stage follows.
StageReturned(stage, r, next) ==
    /\ ran' = Append(ran, [stage |-> stage, ok |-> r.ok])
    /\ IF r.ok
       THEN /\ processed' = r.val
            /\ pc' = next
            /\ UNCHANGED ret
       ELSE /\ ret' = r
            /\ pc' = "done"
            /\ UNCHANGED processed
    /\ UNCHANGED <<call, file>>

InvalidSequenceStage ==
    /\ pc = "invalid_sequences"
    /\ \E r \in deal_with_invalid_sequences(processed,
                    call.actions.invalid_sequence_action, call.alignment, None) :
         StageReturned("invalid_sequences", r, "duplicate_records")

DuplicateRecordStage ==
    /\ pc = "duplicate_records"
    /\ StageReturned("duplicate_records",
                     deal_with_duplicate_records(processed,
                         call.actions.duplicate_record_action),
                     "duplicate_sequences")

DuplicateSequenceStage ==
    /\ pc = "duplicate_sequences"
    /\ StageReturned("duplicate_sequences",
                     deal_with_duplicate_sequences(processed,
                         call.actions.duplicate_sequence_action),
                     "length_filter")

LengthFilterStage ==
    /\ pc = "length_filter"
    /\ StageReturned("length_filter",
                     Ok(length_filter(processed, call.filters.shortest_seq,
                                      call.filters.longest_seq)),
                     "random_subsample")

RandomSubsampleStage ==
    /\ pc = "random_subsample"
    /\ \E s \in random_subsample_outcomes(processed, call.filters.random_subsample) :
         StageReturned("random_subsample", Ok(s), "headers")

\* The header loop and `Ok(processed)`.
HeaderStage ==
    /\ pc = "headers"
    /\ processed' = sanitize_headers(processed, call.filters.remove_comma_from_header)
    /\ ran' = Append(ran, [stage |-> "headers", ok |-> TRUE])
    /\ ret' = Ok(processed')
    /\ pc' = "done"
    /\ UNCHANGED <<call, file>>

\* A call of internal_parse_fasta_file: it returns, or a panic ends the
\* thread that called it.
InternalParseFastaFile ==
    /\ pc = "idle"
    /\ \E content \in { None } \cup { Some(f) : f \in FileInputs },
          expect_unique_header \in BOOLEAN :
         LET r == internal_parse_fasta_file(content, expect_unique_header) IN
           /\ call' = [op |-> "internal_parse_fasta_file", content |-> content,
                       expect_unique_header |-> expect_unique_header]
           /\ ret' = r
           /\ pc' = IF "panic" \in DOMAIN r THEN "panicked" ELSE "done"
    /\ UNCHANGED <<processed, ran, file>>

\* A call of write_fasta.
WriteFasta ==
    /\ pc = "idle"
    /\ \E fasta_data \in EntryInputs, existing \in ExistingInputs,
          line_length \in LineLengthInputs, can_open, append_to_fasta \in BOOLEAN :
         LET w == write_fasta(fasta_data, existing, can_open, line_length, append_to_fasta) IN
           /\ call' = [op |-> "write_fasta", fasta_data |-> fasta_data,
                       existing |-> existing, can_open |-> can_open,
                       line_length |-> line_length,
                       append_to_fasta |-> append_to_fasta]
           /\ ret' = w.result
           /\ file' = w.written
           /\ pc' = "done"
    /\ UNCHANGED <<processed, ran>>

\* A call of split_fasta.
SplitFasta ==
    /\ pc = "idle"
    /\ \E fasta_data \in SplitInputs, n \in 0..MaxChunks :
         LET r == split_fasta(fasta_data, n) IN
           /\ call' = [op |-> "split_fasta", fasta_data |-> fasta_data, n |-> n]
           /\ ret' = r
           /\ pc' = IF "panic" \in DOMAIN r THEN "panicked" ELSE "done"
    /\ UNCHANGED <<processed, ran, file>>

\* A call of check_inputs.
CheckInputs ==
    /\ pc = "idle"
    /\ \E a \in CheckInputsArgs :
         Returns([op |-> "check_inputs", args |-> a], check_inputs(a))

\* Calls of the functions of utilities.rs.
NextUtilities ==
    \/ ConvertToValid
    \/ CheckSequenceIsValid
    \/ ConvertInvalidSequences
    \/ RemoveInvalidSequences
    \/ FailOnInvalidSequences
    \/ FailOnDuplicates
    \/ RemoveDuplicates

SpecUtilities == Init /\ [][NextUtilities]_vars

\* Calls of the functions of io.rs.
NextIO ==
    \/ InternalParseFastaFile
    \/ WriteFasta
    \/ SplitFasta
    \/ CheckInputs

SpecIO == Init /\ [][NextIO]_vars

\* A call of clean_sequences, stage by stage.
Next ==
    \/ CleanSequences
    \/ InvalidSequenceStage
    \/ DuplicateRecordStage
    \/ DuplicateSequenceStage
    \/ LengthFilterStage
    \/ RandomSubsampleStage
    \/ HeaderStage

Spec == Init /\ [][Next]_vars

(* ------------------------------ properties ----------------------------- *)

\* The active alphabet: the 20 standard residues, plus '-' under alignment.
ActiveAlphabet(alignment) ==
    IF alignment THEN STANDARD_AAS \cup {"-"} ELSE STANDARD_AAS

OnlyActiveAlphabet(seq, alignment) ==
    \A k \in 1..Len(seq) : seq[k] \in ActiveAlphabet(alignment)

AllRecordsValid(dataset, alignment) ==
    \A i \in 1..Len(dataset) : OnlyActiveAlphabet(dataset[i][2], alignment)

\* The records of dataset at the indices of S, in dataset order.
RECURSIVE RestrictFrom(_, _, _)
RestrictFrom(dataset, i, S) ==
    IF i > Len(dataset) THEN <<>>
    ELSE (IF i \in S THEN <<dataset[i]>> ELSE <<>>) \o RestrictFrom(dataset, i + 1, S)

Restrict(dataset, S) == RestrictFrom(dataset, 1, S)

InCleanSequences == call.op = "clean_sequences"

Returned(op) == call.op = op /\ pc = "done"

\* C1: clean_sequences is all-or-nothing.  A stage that fails is the last
\* stage to run and is one of the three fallible stages, the call has then
\* returned an error that carries no dataset, and a call that returns with
\* no failed stage has run all six stages and returns the processed dataset.
C1_AllOrNothing ==
    InCleanSequences =>
      /\ \A i \in 1..Len(ran) :
           ~ran[i].ok =>
             /\ i = Len(ran)
             /\ i <= 3
             /\ pc = "done"
             /\ ret # NoRet
             /\ ~ret.ok
             /\ "val" \notin DOMAIN ret
      /\ (pc = "done" /\ \A i \in 1..Len(ran) : ran[i].ok) =>
           /\ [i \in 1..Len(ran) |-> ran[i].stage] = StageOrder
           /\ ret = Ok(processed)
      /\ (pc # "done") => ret = NoRet

\* C1 witness: the third stage failed after an earlier stage had already
\* changed the dataset.
C1_Witness ==
    /\ Returned("clean_sequences")
    /\ ~ret.ok
    /\ Len(ran) = 3
    /\ processed # call.data

\* C2: after the invalid-sequence stage succeeded with action 'fail' or
\* 'convert', every record of the dataset, and of the dataset returned by
\* clean_sequences, has only characters of the active alphabet.
C2_ValidAfterFailOrConvert ==
    ( /\ InCleanSequences
      /\ call.actions.invalid_sequence_action \in {"fail", "convert"}
      /\ Len(ran) >= 1
      /\ ran[1].ok ) =>
        /\ AllRecordsValid(processed, call.alignment)
        /\ (pc = "done" /\ ret.ok) => AllRecordsValid(ret.val, call.alignment)

\* C2 witness: 'convert' succeeded on a dataset that held an invalid
\* sequence, and a non-empty dataset was returned.
C2_Witness ==
    /\ Returned("clean_sequences")
    /\ call.actions.invalid_sequence_action = "convert"
    /\ ~AllRecordsValid(call.data, call.alignment)
    /\ ret.ok
    /\ ret.val # <<>>

\* C3: right after the invalid-sequence stage, with 'convert-remove' the
\* stage has not failed and the dataset is the corrected input without its
\* still-invalid records; with 'convert-ignore' the stage has not failed and
\* the dataset is the corrected input, invalid records included.
C3_ConvertRemoveAndIgnore ==
    (InCleanSequences /\ Len(ran) = 1) =>
      /\ call.actions.invalid_sequence_action = "convert-remove" =>
           /\ ran[1].ok
           /\ \E u \in convert_invalid_sequences(call.data, None, call.alignment) :
                processed =
                  Restrict(u[1], { i \in 1..Len(u[1]) :
                                     OnlyActiveAlphabet(u[1][i][2], call.alignment) })
      /\ call.actions.invalid_sequence_action = "convert-ignore" =>
           /\ ran[1].ok
           /\ \E u \in convert_invalid_sequences(call.data, None, call.alignment) :
                processed = u[1]

\* C4: remove_invalid_sequences returns the input restricted to a set of
\* indices (an order-preserving subsequence, records unmodified); every
\* record kept is valid and every record left out is invalid.
C4_RemoveInvalidSubsequence ==
    Returned("remove_invalid_sequences") =>
      \E S \in SUBSET (1..Len(call.dataset)) :
        /\ ret.val = Restrict(call.dataset, S)
        /\ \A i \in 1..Len(call.dataset) :
             (i \in S) <=> OnlyActiveAlphabet(call.dataset[i][2], call.alignment)

\* C4 witness: some records were dropped and some were kept.
C4_Witness ==
    /\ Returned("remove_invalid_sequences")
    /\ Len(ret.val) >= 1
    /\ Len(ret.val) + 2 <= Len(call.dataset)

\* The index of the first invalid record of dataset; 0 if there is none.
FirstInvalid(dataset, alignment) ==
    IF AllRecordsValid(dataset, alignment) THEN 0
    ELSE CHOOSE i \in 1..Len(dataset) :
           /\ ~OnlyActiveAlphabet(dataset[i][2], alignment)
           /\ \A j \in 1..(i - 1) : OnlyActiveAlphabet(dataset[j][2], alignment)

\* C5: fail_on_invalid_sequences succeeds iff every sequence is valid; its
\* error names the header of the first invalid record and a character of
\* that record's sequence that is outside the active alphabet.
C5_FailOnInvalid ==
    Returned("fail_on_invalid_sequences") =>
      /\ ret.ok <=> AllRecordsValid(call.dataset, call.alignment)
      /\ ~ret.ok =>
           LET first == call.dataset[FirstInvalid(call.dataset, call.alignment)]
           IN  /\ ret.err.header = first[1]
               /\ \E k \in 1..Len(first[2]) : first[2][k] = ret.err.char
               /\ ret.err.char \notin ActiveAlphabet(call.alignment)

\* C5 witness: the first record is valid, the first invalid record is
\* followed by an invalid record with another header, and the character
\* named is not the first invalid character of its sequence.
C5_Witness ==
    /\ Returned("fail_on_invalid_sequences")
    /\ ~ret.ok
    /\ FirstInvalid(call.dataset, call.alignment) = 2
    /\ Len(call.dataset) = 3
    /\ ~OnlyActiveAlphabet(call.dataset[3][2], call.alignment)
    /\ call.dataset[3][1] # call.dataset[2][1]
    /\ ret.err.char = "J"

\* What C6 says of the duplicate-record stage's input and output.
FirstOfEachHeader(input, output) ==
    /\ \A i, j \in 1..Len(output) : output[i][1] = output[j][1] => i = j
    /\ \E S \in SUBSET (1..Len(input)) :
         /\ output = Restrict(input, S)
         /\ \A i \in S : \A j \in 1..(i - 1) : input[j][1] # input[i][1]
         /\ \A i \in 1..Len(input) : \E j \in S : input[j][1] = input[i][1]

\* C6: with duplicate_record_action 'remove' the duplicate-record stage
\* leaves pairwise distinct headers, each with the first record that had it
\* in the stage's input (whatever the later records' sequences), in the
\* input's order.
C6_RemoveKeepsFirstOfEachHeader ==
    [][ ( /\ pc = "duplicate_records"
          /\ call.actions.duplicate_record_action = "remove" )
        => FirstOfEachHeader(processed, processed') ]_vars

\* C6 witness: the stage has dropped a record whose header repeats an
\* earlier one with a different sequence.
C6_Witness ==
    /\ InCleanSequences
    /\ call.actions.invalid_sequence_action = "ignore"
    /\ call.actions.duplicate_record_action = "remove"
    /\ Len(ran) = 2
    /\ Len(call.data) = 3
    /\ call.data[1][1] # call.data[2][1]
    /\ call.data[3][1] = call.data[1][1]
    /\ call.data[3][2] # call.data[1][2]
    /\ processed = SubSeq(call.data, 1, 2)

\* dataset[i] has the header and the sequence of an earlier entry.
RepeatsEarlierPair(dataset, i) ==
    \E j \in 1..(i - 1) : dataset[j] = dataset[i]

\* C7: fail_on_duplicates fails iff some entry has the header and the
\* sequence of an earlier entry, that is, iff remove_duplicates drops an
\* entry of the dataset.
C7_FailIffDuplicatePair ==
    Returned("fail_on_duplicates") =>
      /\ ~ret.ok <=> \E i \in 1..Len(call.dataset) : RepeatsEarlierPair(call.dataset, i)
      /\ ~ret.ok <=> Len(remove_duplicates(call.dataset)) < Len(call.dataset)

\* C8: remove_duplicates returns, in input order, the first occurrence of
\* each distinct (header, sequence) pair, so its output has no repeated pair
\* and keeps an entry whose header was seen with another sequence; applied
\* to its own output it changes nothing.
C8_RemoveDuplicatesFirstOccurrences ==
    Returned("remove_duplicates") =>
      /\ ret.val = Restrict(call.dataset,
                            { i \in 1..Len(call.dataset) :
                                ~RepeatsEarlierPair(call.dataset, i) })
      /\ \A i, j \in 1..Len(ret.val) : ret.val[i] = ret.val[j] => i = j
      /\ remove_duplicates(ret.val) = ret.val

\* C8 witness: an entry with a seen header and a new sequence was kept and
\* a repeat of it was dropped.
C8_Witness ==
    /\ Returned("remove_duplicates")
    /\ Len(call.dataset) = 3
    /\ call.dataset[2][1] = call.dataset[1][1]
    /\ call.dataset[2][2] # call.dataset[1][2]
    /\ call.dataset[3] = call.dataset[2]
    /\ ret.val = SubSeq(call.dataset, 1, 2)

\* C9: with the three actions 'ignore', no length bound, no subsample and
\* remove_comma_from_header false, the dataset is the input at every stage
\* and clean_sequences returns it unchanged.
C9_IdentityPipeline ==
    ( /\ InCleanSequences
      /\ call.actions = AllIgnore
      /\ call.filters = NoFilters ) =>
        /\ processed = call.data
        /\ pc = "done" => ret = Ok(call.data)

\* C9 witness: the identity pipeline returned a dataset holding an invalid
\* sequence, a repeated record and a header with a comma.
C9_Witness ==
    /\ Returned("clean_sequences")
    /\ call.actions = AllIgnore
    /\ call.filters = NoFilters
    /\ Len(call.data) = 3
    /\ call.data[1] = call.data[3]
    /\ call.data[1][1] = HeaderComma
    /\ ~AllRecordsValid(call.data, call.alignment)
    /\ ret.ok

\* The source keys of the default correction table for an alignment flag.
DefaultKeys(alignment) ==
    { e[1] : e \in IF alignment THEN STANDARD_CONVERSION_WITH_GAP
                   ELSE STANDARD_CONVERSION }

\* C10: without a dictionary, a sequence whose characters are all in the
\* active alphabet or keys of the default table for the alignment flag is
\* converted to a sequence of the active alphabet.
C10_ConvertedIsValid ==
    ( /\ Returned("convert_to_valid")
      /\ ~call.correction_dictionary.some
      /\ \A k \in 1..Len(call.seq) :
           call.seq[k] \in ActiveAlphabet(call.alignment) \cup DefaultKeys(call.alignment) )
      => OnlyActiveAlphabet(ret.val, call.alignment)

\* C10 witness: under alignment, a sequence with a key that has a residue
\* target and the key ' ' (which only the gap table holds) was converted.
C10_Witness ==
    /\ Returned("convert_to_valid")
    /\ call.alignment
    /\ call.seq = <<"B", " ">>
    /\ ret.val = <<"N">>

\* The corrected form of a sequence under the default table for the
\* alignment flag: each key character replaced by its target.
RECURSIVE CorrectedForm(_, _)
CorrectedForm(seq, alignment) ==
    IF seq = <<>> THEN <<>>
    ELSE LET table == IF alignment THEN STANDARD_CONVERSION_WITH_GAP
                      ELSE STANDARD_CONVERSION
             hits == { e \in table : e[1] = Head(seq) }
         IN  (IF hits = {} THEN <<Head(seq)>> ELSE (CHOOSE e \in hits : TRUE)[2])
             \o CorrectedForm(Tail(seq), alignment)

\* C11: convert_invalid_sequences returns as many records as it was given,
\* with the same headers in the same order and each sequence in its
\* corrected form, and a count equal to the number of records whose
\* sequence differs from its corrected form; [("h1", "MKBX")] without
\* alignment gives [("h1", "MKNG")] and count 1.
C11_ConvertInvalidSequences ==
    Returned("convert_invalid_sequences") =>
      LET input == call.dataset
          output == ret.val[1]
          count == ret.val[2]
      IN  /\ Len(output) = Len(input)
          /\ \A i \in 1..Len(input) :
               /\ output[i][1] = input[i][1]
               /\ output[i][2] = CorrectedForm(input[i][2], call.alignment)
          /\ count = Cardinality({ i \in 1..Len(input) : input[i][2] # output[i][2] })
          /\ (input = DatasetMKBX /\ ~call.alignment) =>
               ret.val = << << << <<"h", "1">>, <<"M", "K", "N", "G">> >> >>, 1 >>

\* C11 witness: a dataset with a sequence the table changes and one it
\* leaves alone was converted, and one record was counted.
C11_Witness ==
    /\ Returned("convert_invalid_sequences")
    /\ ~call.alignment
    /\ Len(call.dataset) = 2
    /\ call.dataset[1][2] = <<"N">>
    /\ call.dataset[2][2] = <<"B">>
    /\ ret.val[2] = 1

\* C12: check_sequence_is_valid returns true iff every character of the
\* sequence is in the active alphabet (so for the empty sequence); when it
\* returns false the character it reports occurs in the sequence and is
\* outside the active alphabet; "MKV-" is invalid with '-' reported without
\* alignment and valid with alignment.
C12_CheckSequenceIsValid ==
    Returned("check_sequence_is_valid") =>
      /\ ret.val[1] <=> OnlyActiveAlphabet(call.seq, call.alignment)
      /\ call.seq = <<>> => ret.val[1]
      /\ ~ret.val[1] =>
           /\ \E k \in 1..Len(call.seq) : call.seq[k] = ret.val[2]
           /\ ret.val[2] \notin ActiveAlphabet(call.alignment)
      /\ call.seq = SeqMKVGap =>
           IF call.alignment THEN ret.val[1] ELSE ret.val = <<FALSE, "-">>

\* C12 witness: "MKV-" was checked without alignment and '-' was reported.
C12_Witness ==
    /\ Returned("check_sequence_is_valid")
    /\ call.seq = SeqMKVGap
    /\ ~call.alignment
    /\ ret.val = <<FALSE, "-">>

\* The file holds two records with the same header.
RepeatsAHeader(content) ==
    /\ content.some
    /\ LET records == parse_fasta_all(content.val, FALSE).val
       IN  \E i, j \in 1..Len(records) : i < j /\ records[i][1] = records[j][1]

\* C13: when unique headers are expected and the file repeats a header,
\* internal_parse_fasta_file returns an Err value that reports the duplicate
\* header, and the call does not end in a panic.
C13_DuplicateHeaderIsAnErrValue ==
    ( /\ call.op = "internal_parse_fasta_file"
      /\ call.expect_unique_header
      /\ RepeatsAHeader(call.content) ) =>
        /\ pc = "done"
        /\ "ok" \in DOMAIN ret
        /\ ~ret.ok
        /\ ret.err.kind = "duplicate_header"

\* A call of write_fasta on the one record (h, MKVLA) with line_length 3
\* that opened and truncated the file.
WroteMKVLAAtThree ==
    /\ Returned("write_fasta")
    /\ call.fasta_data = << <<<<"h">>, SeqMKVLA>> >>
    /\ call.line_length = Some(3)
    /\ call.can_open
    /\ ~call.append_to_fasta

\* C14 as stated: write_fasta with line_length 3 on the sequence MKVLA
\* writes the lines MKV and LA followed by a blank line.
C14_ChunkedAtRequestedWidth ==
    WroteMKVLAAtThree =>
        file = << <<">", "h">>, <<"M", "K", "V">>, <<"L", "A">>, <<>> >>

\* The width write_fasta chunks at: the requested one, but at least 5.
EffectiveWidth(line_length) ==
    IF line_length.val < MinLineLength THEN MinLineLength ELSE line_length.val

\* C14, amended: a requested width below 5 is raised to 5, so MKVLA with
\* line_length 3 is written as the one line MKVLA followed by a blank line;
\* in general every written sequence line but the last of its record has
\* exactly max(line_length, 5) residues, the last has between 1 and that many,
\* and the lines of a record concatenate to its sequence.
C14_ChunkedAtClampedWidth ==
    /\ WroteMKVLAAtThree => file = << <<">", "h">>, SeqMKVLA, <<>> >>
    /\ ( /\ Returned("write_fasta")
         /\ ret.ok
         /\ call.line_length.some
         /\ ~call.append_to_fasta
         /\ Len(call.fasta_data) = 1 ) =>
           LET seq == call.fasta_data[1][2]
               w == EffectiveWidth(call.line_length)
               n == Len(file) - 2
           IN  /\ file[1] = <<">">> \o call.fasta_data[1][1]
               /\ file[Len(file)] = <<>>
               /\ n = (Len(seq) + w - 1) \div w
               /\ \A k \in 1..n :
                    file[k + 1] =
                      SubSeq(seq, (k - 1) * w + 1,
                             IF k * w < Len(seq) THEN k * w ELSE Len(seq))

C14_Witness ==
    /\ WroteMKVLAAtThree
    /\ ret = Ok(Unit)
    /\ file = << <<">", "h">>, SeqMKVLA, <<>> >>

\* The concatenation of the chunks, in chunk order.
RECURSIVE Flatten(_)
Flatten(chunks) ==
    IF chunks = <<>> THEN <<>> ELSE Head(chunks) \o Flatten(Tail(chunks))

\* C15: for every dataset and every N >= 1 the chunks split_fasta returns
\* concatenate, in chunk order, to the input dataset.
C15_ChunksConcatenateToInput ==
    (Returned("split_fasta") /\ call.n >= 1) =>
        Flatten(ret.val) = call.fasta_data

C15_Witness ==
    /\ Returned("split_fasta")
    /\ call.n = 2
    /\ Len(ret.val) = 2
    /\ Len(ret.val[1]) = 2
    /\ Len(ret.val[2]) = 1
    /\ ret.val[1][1] # ret.val[1][2]
    /\ Flatten(ret.val) = call.fasta_data

\* C19: for 1 <= N <= len, split_fasta returns exactly N chunks, all
\* non-empty, each of at most ceil(len / N) records.
C19_ExactlyNChunks ==
    ( /\ Returned("split_fasta")
      /\ 1 <= call.n
      /\ call.n <= Len(call.fasta_data) ) =>
        /\ Len(ret.val) = call.n
        /\ \A k \in 1..Len(ret.val) :
             /\ ret.val[k] # <<>>
             /\ Len(ret.val[k]) <= (Len(call.fasta_data) + call.n - 1) \div call.n

\* The values of the Ok results of S.
OkVals(S) == { r.val : r \in { x \in S : x.ok } }

\* The datasets the six stages yield when each is applied, in the order
\* of StageOrder, to what the one before it yielded on the call c.
InOrderOutcomes(c) ==
    LET S1 == OkVals(deal_with_invalid_sequences(c.data,
                         c.actions.invalid_sequence_action, c.alignment, None))
        S2 == OkVals({ deal_with_duplicate_records(s,
                         c.actions.duplicate_record_action) : s \in S1 })
        S3 == OkVals({ deal_with_duplicate_sequences(s,
                         c.actions.duplicate_sequence_action) : s \in S2 })
        S4 == { length_filter(s, c.filters.shortest_seq, c.filters.longest_seq) : s \in S3 }
        S5 == UNION { random_subsample_outcomes(s, c.filters.random_subsample) : s \in S4 }
    IN  { sanitize_headers(s, c.filters.remove_comma_from_header) : s \in S5 }

Headers(dataset) == { dataset[i][1] : i \in 1..Len(dataset) }

\* C16: clean_sequences runs its stages in the order invalid sequences,
\* duplicate records, duplicate sequences, length filter, random subsample,
\* headers, each on the output of the one before.  The stages that have run
\* are a prefix of that order; the duplicate-record stage starts on an
\* output of the invalid-sequence stage; no header is rewritten before the
\* header stage; a returned dataset is one the stages yield in that order;
\* and with invalid_sequence_action = "fail" a dataset holding an invalid
\* sequence is answered by the invalid-sequence stage's error, whatever
\* the duplicate stages would have said.
C16_StageOrder ==
    InCleanSequences =>
      /\ Len(ran) <= Len(StageOrder)
      /\ \A i \in 1..Len(ran) : ran[i].stage = StageOrder[i]
      /\ pc = "duplicate_records" =>
           Ok(processed) \in deal_with_invalid_sequences(call.data,
                                 call.actions.invalid_sequence_action,
                                 call.alignment, None)
      /\ pc # "done" => Headers(processed) \subseteq Headers(call.data)
      /\ (pc = "done" /\ ret.ok) => ret.val \in InOrderOutcomes(call)
      /\ ( /\ pc = "done"
           /\ call.actions.invalid_sequence_action = "fail"
           /\ ~AllRecordsValid(call.data, call.alignment) ) =>
             /\ Len(ran) = 1
             /\ ret \in deal_with_invalid_sequences(call.data, "fail",
                                                    call.alignment, None)
             /\ ~ret.ok
             /\ ret.err.kind = "invalid_character"

\* C16 witness: two records whose headers differ only in the comma pass
\* duplicate-record removal and come out with equal headers, the first
\* with its sequence corrected.
C16_Witness ==
    /\ Returned("clean_sequences")
    /\ call.actions = ConvertAndRemove
    /\ call.filters.remove_comma_from_header
    /\ call.data = << <<HeaderComma, <<"B">>>>, <<HeaderSemi, <<"B", "J">>>> >>
    /\ ret.ok
    /\ Len(ret.val) = 2
    /\ ret.val[1][1] = ret.val[2][1]
    /\ ret.val[1][2] # <<"B">>

\* A call with invalid_sequence_action and duplicate_record_action both
\* "fail", on a dataset with an invalid sequence and a repeated header,
\* returned the invalid-sequence stage's error.
C16_WitnessBothFail ==
    /\ Returned("clean_sequences")
    /\ call.actions.invalid_sequence_action = "fail"
    /\ call.actions.duplicate_record_action = "fail"
    /\ ~AllRecordsValid(call.data, call.alignment)
    /\ Len(call.data) = 2
    /\ call.data[1][1] = call.data[2][1]
    /\ ret.err.kind = "invalid_character"

\* The indices of the records of dataset whose length is within the
\* bounds that are set, both inclusive.
WithinBounds(dataset, shortest_seq, longest_seq) ==
    { i \in 1..Len(dataset) :
        /\ shortest_seq.some => shortest_seq.val <= Len(dataset[i][2])
        /\ longest_seq.some => Len(dataset[i][2]) <= longest_seq.val }

\* C17: the length filter retains exactly the records whose length is
\* within the bounds that are set, both inclusive, in their order, and
\* raises no error; with shortest_seq > longest_seq it leaves no record.
C17_LengthFilterInclusive ==
    [][ pc = "length_filter" =>
          /\ processed' = Restrict(processed,
                              WithinBounds(processed, call.filters.shortest_seq,
                                           call.filters.longest_seq))
          /\ pc' = "random_subsample"
          /\ ( /\ call.filters.shortest_seq.some
               /\ call.filters.longest_seq.some
               /\ call.filters.shortest_seq.val > call.filters.longest_seq.val ) =>
                 processed' = <<>> ]_vars

\* C17 witness: with shortest_seq = 2 alone, a record of length 1 was
\* dropped and the records of length 2 were kept in their order.
C17_Witness ==
    /\ Returned("clean_sequences")
    /\ call.actions = AllIgnore
    /\ call.filters = [NoFilters EXCEPT !.shortest_seq = Some(2)]
    /\ Len(call.data) = 3
    /\ Len(call.data[1][2]) = 1
    /\ call.data[2] # call.data[3]
    /\ ret = Ok(<<call.data[2], call.data[3]>>)

\* A call with shortest_seq = 2 and longest_seq = 1 on three records
\* returned the empty dataset.
C17_WitnessCrossedBounds ==
    /\ Returned("clean_sequences")
    /\ call.filters.shortest_seq = Some(2)
    /\ call.filters.longest_seq = Some(1)
    /\ Len(ran) = 6
    /\ Len(call.data) = 3
    /\ ret = Ok(<<>>)

\* How often record r occurs in dataset.
Count(dataset, r) == Cardinality({ i \in 1..Len(dataset) : dataset[i] = r })

Min(a, b) == IF a < b THEN a ELSE b

\* C18: with random_subsample = k, whatever the shuffle, the subsample
\* stage leaves exactly min(k, n) of the n records it was given, none used
\* more often than it occurs among them, and raises no error; with k >= n
\* every record is kept as often as it occurs.
C18_SubsampleSize ==
    [][ (pc = "random_subsample" /\ call.filters.random_subsample.some) =>
          LET k == call.filters.random_subsample.val
              n == Len(processed)
          IN  /\ pc' = "headers"
              /\ Len(processed') = Min(k, n)
              /\ \A i \in 1..Len(processed') :
                   Count(processed', processed'[i]) <= Count(processed, processed'[i])
              /\ k >= n =>
                   \A i \in 1..n :
                     Count(processed', processed[i]) = Count(processed, processed[i]) ]_vars

\* C18 witness: a subsample of one record out of three returned the third.
C18_Witness ==
    /\ Returned("clean_sequences")
    /\ call.actions = AllIgnore
    /\ call.filters = [NoFilters EXCEPT !.random_subsample = Some(1)]
    /\ Len(call.data) = 3
    /\ call.data[3] # call.data[1]
    /\ call.data[3] # call.data[2]
    /\ ret = Ok(<<call.data[3]>>)

\* The inputs the claim calls invalid.
InvalidInputs(a) ==
    \/ a.duplicate_record_action \notin { "ignore", "fail", "remove" }
    \/ a.duplicate_sequence_action \notin { "ignore", "fail", "remove" }
    \/ a.invalid_sequence_action \notin
         { "ignore", "fail", "remove", "convert", "convert-ignore", "convert-remove" }
    \/ a.output_filename = Some(<<>>)
    \/ a.correction_dictionary = Some({})
    \/ (a.check_header_parser /\ a.header_parser.some /\ ~a.header_parser.val.ok)
    \/ (a.duplicate_record_action = "ignore" /\ a.expect_unique_header)

\* C20: check_inputs returns Ok(()) exactly when no action string is
\* outside its set, no supplied filename or dictionary is empty, the
\* header-parser self-test does not fail, and it is not the case that
\* duplicate_record_action is "ignore" while expect_unique_header is true;
\* the four boolean flags are accepted with either value.
C20_CheckInputs ==
    Returned("check_inputs") => (ret.ok <=> ~InvalidInputs(call.args))

\* The default correction table for an alignment flag.
DefaultTable(alignment) ==
    IF alignment THEN STANDARD_CONVERSION_WITH_GAP ELSE STANDARD_CONVERSION

\* C21: with either default table convert_to_valid is deterministic
\* although the table is iterated in an unspecified order: every order in
\* which the entries are applied gives the string that was returned,
\* converting that string again in any order leaves it unchanged, and no
\* character of a replacement target of the table is a source key of it.
C21_ConvertToValidDeterministic ==
    (Returned("convert_to_valid") /\ ~call.correction_dictionary.some) =>
        /\ convert_to_valid(call.seq, call.alignment, None) = { ret.val }
        /\ convert_to_valid(ret.val, call.alignment, None) = { ret.val }
        /\ \A e \in DefaultTable(call.alignment) :
             \A k \in 1..Len(e[2]) : e[2][k] \notin DefaultKeys(call.alignment)

\* C21 witness: a sequence of two keys with residue targets was converted,
\* so that the two entries were applied in either order among the 720
\* orders of the table.
C21_Witness ==
    /\ Returned("convert_to_valid")
    /\ ~call.alignment
    /\ call.seq = <<"B", "X">>
    /\ ret.val = <<"N", "G">>
    /\ Cardinality(ConverterOrders(FALSE, None)) = 720

====
